---- MODULE Spec2Model ----
(***************************************************************************)
(* Model of rule_based_sort/rule_based_sorter.py (class FileSorter).       *)
(*                                                                         *)
(* Python values are modelled as follows.                                  *)
(*   str    a sequence of one-character strings, <<"A","5">> for "A5"      *)
(*   scalar a record [kind, s, n]: kind "str" carries the text in s,       *)
(*          kind "int" the number in n, kind "none" is None                *)
(*   dict   a function; `k in d` is k \in DOMAIN d                         *)
(*   list   a sequence                                                     *)
(* A call that can raise returns "True"/"False" or the name of the         *)
(* exception that leaves the function ("TypeError", "OverflowError").      *)
(***************************************************************************)
EXTENDS Integers, Sequences, FiniteSets, TLC

VARIABLES
    config_file,  \* the YAML document stored at config_path
    config,       \* self.config
    templates,    \* self.templates
    base_output_dir, \* self.base_output_dir
    fs,           \* the file system: path -> content of the file there
                  \* (Directory for a directory)
    call,         \* the last call made on the FileSorter and its outcome
    threads,      \* the local variables of the get_new_location calls in
                  \* progress, one record per calling thread
    batch         \* the local variables of main (sort_tr_docs.py)

vars ==
    <<config_file, config, templates, base_output_dir, fs, call, threads,
      batch>>

----------------------------------------------------------------------------
(* Bounds *)

\* children per generated group condition
MaxChildren == 2
\* children per generated nested (inner) group condition
MaxInner == 1
\* rules per configuration
MaxRules == 3
\* values per list of a 'when' mapping
MaxWhenList == 2
\* pieces a template with snippet references is written from
MaxTokens == 2
\* options of a fallback chain
MaxOptions == 2
\* characters of an original file name
MaxNameLen == 5
\* pieces a template without tokens is written from
MaxPlain == 3
\* threads that call get_new_location on the one FileSorter
MaxThreads == 2
\* PDF files main finds in the target directory
MaxFiles == 2

----------------------------------------------------------------------------
(* Python strings and scalars *)

StrVal(s) == [kind |-> "str", s |-> s, n |-> 0]
IntVal(n) == [kind |-> "int", s |-> << >>, n |-> n]
NoneVal == [kind |-> "none", s |-> << >>, n |-> 0]

Digits == <<"0", "1", "2", "3", "4", "5", "6", "7", "8", "9">>

RECURSIVE IntToStr(_)
IntToStr(n) ==
    IF n < 0 THEN <<"-">> \o IntToStr(-n)
    ELSE IF n < 10 THEN <<Digits[n + 1]>>
    ELSE IntToStr(n \div 10) \o <<Digits[(n % 10) + 1]>>

\* str(x)
PyStr(v) ==
    CASE v.kind = "str" -> v.s
      [] v.kind = "int" -> IntToStr(v.n)
      [] v.kind = "none" -> <<"N", "o", "n", "e">>

\* a == b on scalars: values of different types are never equal
PyEq(a, b) == a.kind = b.kind /\ a.s = b.s /\ a.n = b.n

\* s.startswith(p)
StartsWith(s, p) == Len(p) <= Len(s) /\ SubSeq(s, 1, Len(p)) = p

\* s.endswith(p)
EndsWith(s, p) ==
    Len(p) <= Len(s) /\ SubSeq(s, Len(s) - Len(p) + 1, Len(s)) = p

\* p in s
Contains(s, p) ==
    \E i \in 1..(Len(s) + 1) :
        i + Len(p) - 1 <= Len(s) /\ SubSeq(s, i, i + Len(p) - 1) = p

UpperChar(c) ==
    CASE c = "a" -> "A"
      [] c = "n" -> "N"
      [] c = "d" -> "D"
      [] c = "o" -> "O"
      [] c = "r" -> "R"
      [] c = "x" -> "X"
      [] OTHER -> c

\* s.upper()
Upper(s) == [i \in 1..Len(s) |-> UpperChar(s[i])]

Bool(b) == IF b THEN "True" ELSE "False"

\* d.get(k, default)
Get(d, k, default) == IF k \in DOMAIN d THEN d[k] ELSE default

----------------------------------------------------------------------------
(* re.search(pattern, text) for patterns over literal characters, "^",    *)
(* "[" and a repeat "{digits}".  A pattern holding "[" has an unterminated *)
(* character set and does not compile (re.error).  A repeat whose count is *)
(* MAXREPEAT or more does not compile either: the parser raises            *)
(* OverflowError, which is not an re.error.                                *)

ReCompiles(pattern) == \A i \in 1..Len(pattern) : pattern[i] # "["

\* the decimal digits of _sre.MAXREPEAT, 4294967295
MAXREPEAT == <<"4", "2", "9", "4", "9", "6", "7", "2", "9", "5">>

DigitOf(c) == CHOOSE d \in 0..9 : Digits[d + 1] = c

IsDigits(s) == s # << >> /\ \A i \in 1..Len(s) : \E d \in 0..9 : Digits[d + 1] = s[i]

\* int(a) >= int(b) for digit strings without leading zeros
RECURSIVE DecimalGE(_, _)
DecimalGE(a, b) ==
    IF Len(a) # Len(b) THEN Len(a) > Len(b)
    ELSE IF a = << >> THEN TRUE
    ELSE IF Head(a) # Head(b) THEN DigitOf(Head(a)) > DigitOf(Head(b))
    ELSE DecimalGE(Tail(a), Tail(b))

\* the pattern holds a repeat {n} with n >= MAXREPEAT
ReOverflows(pattern) ==
    \E i, j \in 1..Len(pattern) :
        /\ pattern[i] = "{"
        /\ pattern[j] = "}"
        /\ i + 1 < j
        /\ IsDigits(SubSeq(pattern, i + 1, j - 1))
        /\ pattern[i + 1] # "0"
        /\ DecimalGE(SubSeq(pattern, i + 1, j - 1), MAXREPEAT)

RECURSIVE ReMatchAt(_, _, _)
ReMatchAt(pattern, text, pos) ==
    IF pattern = << >> THEN TRUE
    ELSE IF Head(pattern) = "^"
         THEN pos = 1 /\ ReMatchAt(Tail(pattern), text, pos)
         ELSE /\ pos <= Len(text)
              /\ text[pos] = Head(pattern)
              /\ ReMatchAt(Tail(pattern), text, pos + 1)

ReSearch(pattern, text) ==
    \E pos \in 1..(Len(text) + 1) : ReMatchAt(pattern, text, pos)

----------------------------------------------------------------------------
(* FileSorter._evaluate_condition / FileSorter._evaluate_conditions *)

AND == <<"A", "N", "D">>
OR == <<"O", "R">>

RECURSIVE _evaluate_condition(_, _)
RECURSIVE _evaluate_conditions(_, _)
RECURSIVE PyAll(_, _, _)
RECURSIVE PyAny(_, _, _)

\* every child is evaluated before the results are combined
RECURSIVE PyAll_NoShortCircuit(_, _, _)
PyAll_NoShortCircuit(rules, metadata, i) ==
    IF i > Len(rules) THEN "True"
    ELSE LET r == _evaluate_condition(rules[i], metadata)
             rest == PyAll_NoShortCircuit(rules, metadata, i + 1)
         IN  IF r \notin {"True", "False"} THEN r
             ELSE IF rest \notin {"True", "False"} THEN rest
             ELSE IF r = "True" THEN rest ELSE r

\* all(self._evaluate_condition(rule, metadata) for rule in rules), from
\* child i on: stops at the first child that is false or raises
PyAll(rules, metadata, i) ==
    IF i > Len(rules) THEN "True"
    ELSE LET r == _evaluate_condition(rules[i], metadata)
         IN  IF r = "True" THEN PyAll(rules, metadata, i + 1) ELSE r

\* any(self._evaluate_condition(rule, metadata) for rule in rules), from
\* child i on: stops at the first child that is true or raises
PyAny(rules, metadata, i) ==
    IF i > Len(rules) THEN "False"
    ELSE LET r == _evaluate_condition(rules[i], metadata)
         IN  IF r = "False" THEN PyAny(rules, metadata, i + 1) ELSE r

\* equals by text form, the way contains/starts_with/ends_with coerce
OperatorTest_TextEquals(operator, file_value, value) ==
    CASE operator = "equals" -> Bool(PyStr(file_value) = PyStr(value))
      [] operator = "not_equals" -> Bool(PyStr(file_value) # PyStr(value))
      [] operator = "contains" ->
            IF value.kind # "str" THEN "TypeError"
            ELSE Bool(Contains(PyStr(file_value), value.s))
      [] operator = "starts_with" ->
            IF value.kind # "str" THEN "TypeError"
            ELSE Bool(StartsWith(PyStr(file_value), value.s))
      [] operator = "ends_with" ->
            IF value.kind # "str" THEN "TypeError"
            ELSE Bool(EndsWith(PyStr(file_value), value.s))
      [] operator = "regex" ->
            IF value.kind # "str" THEN "TypeError"
            ELSE IF ReOverflows(value.s) THEN "OverflowError"
            ELSE IF ~ReCompiles(value.s) THEN "False"
            ELSE Bool(ReSearch(value.s, PyStr(file_value)))
      [] OTHER -> "False"

\* the if/elif chain over the operator (lines 132-148).  `value in s`,
\* s.startswith(value), s.endswith(value) and re.search(value, s) raise
\* TypeError when value is not a str; only re.error is caught, so the
\* OverflowError of a repeat count that is too large leaves the function.
OperatorTest(operator, file_value, value) ==
    CASE operator = "equals" -> Bool(PyEq(file_value, value))
      [] operator = "not_equals" -> Bool(~PyEq(file_value, value))
      [] operator = "contains" ->
            IF value.kind # "str" THEN "TypeError"
            ELSE Bool(Contains(PyStr(file_value), value.s))
      [] operator = "starts_with" ->
            IF value.kind # "str" THEN "TypeError"
            ELSE Bool(StartsWith(PyStr(file_value), value.s))
      [] operator = "ends_with" ->
            IF value.kind # "str" THEN "TypeError"
            ELSE Bool(EndsWith(PyStr(file_value), value.s))
      [] operator = "regex" ->
            IF value.kind # "str" THEN "TypeError"
            ELSE IF ReOverflows(value.s) THEN "OverflowError"
            ELSE IF ~ReCompiles(value.s) THEN "False"
            ELSE Bool(ReSearch(value.s, PyStr(file_value)))
      [] OTHER -> "False"

\* the field looked up with metadata.get(field) instead of the membership
\* test
SimpleCondition_NoFieldCheck(condition, metadata) ==
    OperatorTest(condition.operator,
                 Get(metadata, condition.field, NoneVal),
                 condition.value)

\* the simple-condition branch of _evaluate_condition (lines 122-148)
SimpleCondition(condition, metadata) ==
    LET field == condition.field
        operator == condition.operator
        value == condition.value
    IN  IF field \notin DOMAIN metadata THEN "False"
        ELSE LET file_value == metadata[field]
             IN  OperatorTest(operator, file_value, value)

_evaluate_condition(condition, metadata) ==
    IF "logic" \in DOMAIN condition
    THEN _evaluate_conditions(condition, metadata)
    ELSE SimpleCondition(condition, metadata)

\* any([]) and all([]) decide the empty group
_evaluate_conditions_NoEmptyCheck(conditions, metadata) ==
    LET logic == Upper(Get(conditions, "logic", AND))
        rules == Get(conditions, "rules", << >>)
    IN  IF logic = AND THEN PyAll(rules, metadata, 1)
        ELSE IF logic = OR THEN PyAny(rules, metadata, 1)
        ELSE "False"

_evaluate_conditions(conditions, metadata) ==
    LET logic == Upper(Get(conditions, "logic", AND))
        rules == Get(conditions, "rules", << >>)
    IN  IF rules = << >> THEN "True"
        ELSE IF logic = AND THEN PyAll(rules, metadata, 1)
        ELSE IF logic = OR THEN PyAny(rules, metadata, 1)
        ELSE "False"

----------------------------------------------------------------------------
(* FileSorter._convert_when_to_conditions and FileSorter._load_config.     *)
(* A 'when' mapping is the sequence of its items in document order; a list *)
(* value is [kind |-> "list", items |-> <<...>>].                          *)

Leaf(f, o, v) == [field |-> f, operator |-> o, value |-> v]
Group(l, r) == [logic |-> l, rules |-> r]
ListVal(items) == [kind |-> "list", items |-> items]

\* the leaves appended for one item of the mapping (lines 68-82)
\* a list without values is taken as the single value None
ItemLeaves_EmptyListIsNone(item) ==
    IF item.value.kind = "list" /\ item.value.items # << >>
    THEN [j \in 1..Len(item.value.items) |->
             Leaf(item.field, "equals", item.value.items[j])]
    ELSE <<Leaf(item.field, "equals",
                IF item.value.kind = "list" THEN NoneVal ELSE item.value)>>

\* the leaves one item of the mapping contributes (lines 68-82)
ItemLeaves(item) ==
    IF item.value.kind = "list"
    THEN [j \in 1..Len(item.value.items) |->
             Leaf(item.field, "equals", item.value.items[j])]
    ELSE <<Leaf(item.field, "equals", item.value)>>

\* the loop over when.items() (lines 65-82)
RECURSIVE WhenLeaves(_)
WhenLeaves(when) ==
    IF when = << >> THEN << >>
    ELSE ItemLeaves(Head(when)) \o WhenLeaves(Tail(when))

\* every group is AND, whatever the fields of its leaves
_convert_when_to_conditions_AlwaysAnd(when) ==
    Group(AND, WhenLeaves(when))

_convert_when_to_conditions(when) ==
    LET rules == WhenLeaves(when)
    IN  IF Len(rules) = 1 THEN Group(AND, rules)
        ELSE LET fields == {rules[i].field : i \in 1..Len(rules)}
             IN  IF Cardinality(fields) = 1 THEN Group(OR, rules)
                 ELSE Group(AND, rules)

\* one rule of the loop of _load_config (lines 44-46)
LoadRule(rule) ==
    IF "when" \in DOMAIN rule /\ "conditions" \notin DOMAIN rule
    THEN [k \in (DOMAIN rule \ {"when"}) \cup {"conditions"} |->
             IF k = "conditions"
             THEN _convert_when_to_conditions(rule["when"])
             ELSE rule[k]]
    ELSE rule

\* the value _load_config returns
_load_config(document) ==
    IF "rules" \in DOMAIN document
    THEN [document EXCEPT
             !["rules"] = [i \in 1..Len(document["rules"]) |->
                              LoadRule(document["rules"][i])]]
    ELSE document

----------------------------------------------------------------------------
(* FileSorter._find_all_matching_rules.  A call returns                    *)
(* [kind |-> "return", value |-> ...] or is left by an exception,          *)
(* [kind |-> "raise", exception |-> ...].                                  *)

Return(v) == [kind |-> "return", value |-> v]
Raise(e) == [kind |-> "raise", exception |-> e]

NoConditions == << >>

\* the loop stops at the first rule that matches
RECURSIVE MatchLoop_FirstOnly(_, _, _, _)
MatchLoop_FirstOnly(rules, metadata, i, matching_rules) ==
    IF i > Len(rules) \/ matching_rules # << >> THEN Return(matching_rules)
    ELSE LET conditions == Get(rules[i], "conditions", NoConditions)
             r == _evaluate_conditions(conditions, metadata)
         IN  IF r \notin {"True", "False"} THEN Raise(r)
             ELSE IF r = "True"
                  THEN MatchLoop_FirstOnly(rules, metadata, i + 1,
                                           Append(matching_rules, rules[i]))
                  ELSE MatchLoop_FirstOnly(rules, metadata, i + 1,
                                           matching_rules)

\* the for loop of lines 254-257, from rule i on
RECURSIVE MatchLoop(_, _, _, _)
MatchLoop(rules, metadata, i, matching_rules) ==
    IF i > Len(rules) THEN Return(matching_rules)
    ELSE LET conditions == Get(rules[i], "conditions", NoConditions)
             r == _evaluate_conditions(conditions, metadata)
         IN  IF r \notin {"True", "False"} THEN Raise(r)
             ELSE IF r = "True"
                  THEN MatchLoop(rules, metadata, i + 1,
                                 Append(matching_rules, rules[i]))
                  ELSE MatchLoop(rules, metadata, i + 1, matching_rules)

_find_all_matching_rules(cfg, metadata) ==
    MatchLoop(Get(cfg, "rules", << >>), metadata, 1, << >>)

----------------------------------------------------------------------------
(* FileSorter._replace_placeholders *)

TemplatePrefix == <<"$", "t", "e", "m", "p", "l", "a", "t", "e", ".">>
ORIGINAL == <<"o", "r", "i", "g", "i", "n", "a", "l">>
EXT == <<"e", "x", "t">>
FILENAME == <<"f", "i", "l", "e", "n", "a", "m", "e">>

\* \w of the re module, for ASCII text
WordChars ==
    {"a", "b", "c", "d", "e", "f", "g", "h", "i", "j", "k", "l", "m", "n",
     "o", "p", "q", "r", "s", "t", "u", "v", "w", "x", "y", "z",
     "A", "B", "C", "D", "E", "F", "G", "H", "I", "J", "K", "L", "M", "N",
     "O", "P", "Q", "R", "S", "T", "U", "V", "W", "X", "Y", "Z",
     "0", "1", "2", "3", "4", "5", "6", "7", "8", "9", "_"}

\* the characters str.strip() removes, for ASCII text
Whitespace == {" ", "\t", "\n", "\r"}

\* s[i:]
From(s, i) == SubSeq(s, i, Len(s))

\* s.find(p, i) with positions counted from 1; 0 when p does not occur
Find(s, p, i) ==
    LET hits == {k \in i..(Len(s) - Len(p) + 1) : SubSeq(s, k, k + Len(p) - 1) = p}
    IN  IF hits = {} THEN 0 ELSE CHOOSE k \in hits : \A h \in hits : k <= h

\* s.rfind(p) with positions counted from 1; 0 when p does not occur
RFind(s, p) ==
    LET hits == {k \in 1..(Len(s) - Len(p) + 1) : SubSeq(s, k, k + Len(p) - 1) = p}
    IN  IF hits = {} THEN 0 ELSE CHOOSE k \in hits : \A h \in hits : k >= h

\* s.replace(old, new) for a non-empty old
RECURSIVE StrReplace(_, _, _)
StrReplace(s, old, new) ==
    LET i == Find(s, old, 1)
    IN  IF i = 0 THEN s
        ELSE SubSeq(s, 1, i - 1) \o new
                 \o StrReplace(From(s, i + Len(old)), old, new)

\* s.split(sep) for a one-character sep
RECURSIVE Split(_, _)
Split(s, sep) ==
    LET i == Find(s, <<sep>>, 1)
    IN  IF i = 0 THEN <<s>>
        ELSE <<SubSeq(s, 1, i - 1)>> \o Split(From(s, i + 1), sep)

\* s.strip()
RECURSIVE Strip(_)
Strip(s) ==
    IF s = << >> THEN s
    ELSE IF Head(s) \in Whitespace THEN Strip(Tail(s))
    ELSE IF s[Len(s)] \in Whitespace THEN Strip(SubSeq(s, 1, Len(s) - 1))
    ELSE s

\* the last position of the run of word characters that starts at i
RECURSIVE WordEnd(_, _)
WordEnd(s, i) ==
    IF i + 1 <= Len(s) /\ s[i + 1] \in WordChars THEN WordEnd(s, i + 1) ELSE i

\* re.findall(r'\$template\.(\w+)', s), scanning from position i
RECURSIVE FindTemplateNames(_, _)
FindTemplateNames(s, i) ==
    IF i > Len(s) THEN << >>
    ELSE LET n == i + Len(TemplatePrefix)
         IN  IF /\ n <= Len(s)
                /\ SubSeq(s, i, n - 1) = TemplatePrefix
                /\ s[n] \in WordChars
             THEN <<SubSeq(s, n, WordEnd(s, n))>>
                      \o FindTemplateNames(s, WordEnd(s, n) + 1)
             ELSE FindTemplateNames(s, i + 1)

\* the loop over the matches (lines 198-204), from match k on
RECURSIVE ResolveTemplateReferences(_, _, _, _)
ResolveTemplateReferences(result, matches, k, table) ==
    IF k > Len(matches) THEN result
    ELSE LET template_name == matches[k]
         IN  IF template_name \in DOMAIN table
             THEN ResolveTemplateReferences(
                      StrReplace(result, TemplatePrefix \o template_name,
                                 table[template_name]),
                      matches, k + 1, table)
             ELSE ResolveTemplateReferences(result, matches, k + 1, table)

\* Path(name).suffix for a name without separators
PathSuffix(name) ==
    LET i == RFind(name, <<".">>)
    IN  IF 1 < i /\ i < Len(name) THEN From(name, i) ELSE << >>

\* the name is cut at its first dot
PathStem_FirstDot(name) ==
    LET i == Find(name, <<".">>, 1)
    IN  IF 1 < i /\ i < Len(name) THEN SubSeq(name, 1, i - 1) ELSE name

\* Path(name).stem for a name without separators
PathStem(name) ==
    LET i == RFind(name, <<".">>)
    IN  IF 1 < i /\ i < Len(name) THEN SubSeq(name, 1, i - 1) ELSE name

IsQuoted(option, q) ==
    Len(option) >= 1 /\ Head(option) = q /\ option[Len(option)] = q

\* the option `filename` is looked up like every other field
RECURSIVE FirstOption_FilenameLookedUp(_, _, _)
FirstOption_FilenameLookedUp(options, k, metadata) ==
    IF k > Len(options) THEN << >>
    ELSE LET option == options[k]
         IN  IF IsQuoted(option, "'") \/ IsQuoted(option, "\"")
             THEN SubSeq(option, 2, Len(option) - 1)
             ELSE IF /\ option \in DOMAIN metadata
                     /\ metadata[option] # NoneVal
                     /\ Strip(PyStr(metadata[option])) # << >>
                  THEN PyStr(metadata[option])
                  ELSE FirstOption_FilenameLookedUp(options, k + 1, metadata)

\* the loop over the fallback options (lines 222-237), from option k on
RECURSIVE FirstOption(_, _, _)
FirstOption(options, k, metadata) ==
    IF k > Len(options) THEN << >>
    ELSE LET option == options[k]
         IN  IF IsQuoted(option, "'") \/ IsQuoted(option, "\"")
             THEN SubSeq(option, 2, Len(option) - 1)
             ELSE IF /\ option \in DOMAIN metadata
                     /\ option # FILENAME
                     /\ metadata[option] # NoneVal
                     /\ Strip(PyStr(metadata[option])) # << >>
                  THEN PyStr(metadata[option])
                  ELSE FirstOption(options, k + 1, metadata)

\* only the first option of the chain is tried
replace_with_fallback_FirstOptionOnly(placeholder_content, metadata, original_filename) ==
    IF placeholder_content = ORIGINAL THEN PathStem(original_filename)
    ELSE IF placeholder_content = EXT THEN PathSuffix(original_filename)
    ELSE LET parts == Split(placeholder_content, "|")
             options == <<Strip(parts[1])>>
         IN  FirstOption(options, 1, metadata)

replace_with_fallback(placeholder_content, metadata, original_filename) ==
    IF placeholder_content = ORIGINAL THEN PathStem(original_filename)
    ELSE IF placeholder_content = EXT THEN PathSuffix(original_filename)
    ELSE LET parts == Split(placeholder_content, "|")
             options == [k \in 1..Len(parts) |-> Strip(parts[k])]
         IN  FirstOption(options, 1, metadata)

\* the pattern also takes the token with nothing between the braces
RECURSIVE SubPlaceholders_EmptyToken(_, _, _, _)
SubPlaceholders_EmptyToken(s, i, metadata, original_filename) ==
    IF i > Len(s) THEN << >>
    ELSE LET j == Find(s, <<"}">>, i + 1)
         IN  IF s[i] = "{" /\ j > i
             THEN replace_with_fallback(SubSeq(s, i + 1, j - 1), metadata,
                                        original_filename)
                      \o SubPlaceholders_EmptyToken(s, j + 1, metadata,
                                                    original_filename)
             ELSE <<s[i]>>
                      \o SubPlaceholders_EmptyToken(s, i + 1, metadata,
                                                    original_filename)

\* re.sub(r'\{([^}]+)\}', replace_with_fallback, s), scanning from i
RECURSIVE SubPlaceholders(_, _, _, _)
SubPlaceholders(s, i, metadata, original_filename) ==
    IF i > Len(s) THEN << >>
    ELSE LET j == Find(s, <<"}">>, i + 1)
         IN  IF s[i] = "{" /\ j > i + 1
             THEN replace_with_fallback(SubSeq(s, i + 1, j - 1), metadata,
                                        original_filename)
                      \o SubPlaceholders(s, j + 1, metadata, original_filename)
             ELSE <<s[i]>>
                      \o SubPlaceholders(s, i + 1, metadata, original_filename)

_replace_placeholders(template, metadata, original_filename, table) ==
    LET matches == FindTemplateNames(template, 1)
        result == ResolveTemplateReferences(template, matches, 1, table)
    IN  SubPlaceholders(result, 1, metadata, original_filename)

----------------------------------------------------------------------------
(* The file system *)

Directory == "dir"
NoFiles == << >>

\* os.path.exists(p)
Exists(p) == p \in DOMAIN fs

----------------------------------------------------------------------------
(* FileSorter.get_new_location *)

\* os.path.basename(p)
Basename(p) == From(p, RFind(p, <<"/">>) + 1)

\* os.path.join(a, b)
PathJoin(a, b) ==
    IF b # << >> /\ Head(b) = "/" THEN b
    ELSE IF a = << >> \/ a[Len(a)] = "/" THEN a \o b
    ELSE a \o <<"/">> \o b

\* d.update(other) on a copy of d
DictUpdate(d, other) ==
    [k \in DOMAIN d \cup DOMAIN other |->
        IF k \in DOMAIN other THEN other[k] ELSE d[k]]

\* the characters pathvalidate replaces in a file name and in a path
InvalidFilenameChars == {"/", "\\", ":", "*", "?", "\"", "<", ">", "|"}
InvalidPathChars == {":", "*", "?", "\"", "<", ">", "|"}

ReplaceChars(s, invalid, replacement_text) ==
    [i \in 1..Len(s) |-> IF s[i] \in invalid THEN replacement_text ELSE s[i]]

\* pathvalidate.sanitize_filename(s, replacement_text="_")
sanitize_filename(s) == ReplaceChars(s, InvalidFilenameChars, "_")

\* pathvalidate.sanitize_filepath(s, replacement_text="_")
sanitize_filepath(s) == ReplaceChars(s, InvalidPathChars, "_")

Unnamed == "Unnamed"
DefaultPath == <<".">>
DefaultFilename == <<"{">> \o ORIGINAL \o <<"}">>

NoRuleError ==
    [kind |-> "raise", exception |-> "ValueError",
     message |-> "No matching rule found"]

MultipleRulesError(rule_names) ==
    [kind |-> "raise", exception |-> "ValueError",
     message |-> "Multiple rules matched", rule_names |-> rule_names]

\* the names are listed last match first
RuleNames_Reversed(matching_rules) ==
    [k \in 1..Len(matching_rules) |->
        Get(matching_rules[Len(matching_rules) + 1 - k], "name", Unnamed)]

\* rule_names of line 310
RuleNames(matching_rules) ==
    [k \in 1..Len(matching_rules) |-> Get(matching_rules[k], "name", Unnamed)]

\* file_metadata of lines 298-299
FileMetadata(original_filepath, metadata) ==
    DictUpdate(FILENAME :> StrVal(Basename(original_filepath)), metadata)

\* lines 316-336: the location computed from the one rule that matched
NewLocation(rule, file_metadata, original_filename) ==
    LET rule_name == Get(rule, "name", Unnamed)
        path_template == Get(rule, "path", DefaultPath)
        filename_template == Get(rule, "filename", DefaultFilename)
        relative_path ==
            _replace_placeholders(path_template, file_metadata,
                                  original_filename, templates)
        new_filename ==
            _replace_placeholders(filename_template, file_metadata,
                                  original_filename, templates)
        absolute_path == PathJoin(base_output_dir, relative_path)
    IN  Return([path |-> sanitize_filepath(absolute_path),
                filename |-> sanitize_filename(new_filename),
                rule_name |-> rule_name])

get_new_location(original_filepath, metadata) ==
    IF ~Exists(original_filepath) THEN Raise("FileNotFoundError")
    ELSE LET original_filename == Basename(original_filepath)
             file_metadata == FileMetadata(original_filepath, metadata)
             found == _find_all_matching_rules(config, file_metadata)
         IN  IF found.kind = "raise" THEN found
             ELSE LET matching_rules == found.value
                  IN  IF Len(matching_rules) = 0 THEN NoRuleError
                      ELSE IF Len(matching_rules) > 1
                           THEN MultipleRulesError(RuleNames(matching_rules))
                           ELSE NewLocation(matching_rules[1], file_metadata,
                                            original_filename)

----------------------------------------------------------------------------
(* FileSorter.move_file.  The operators give the outcome of the call and   *)
(* the file system it leaves.                                              *)

\* os.path.dirname(p)
Dirname(p) == SubSeq(p, 1, RFind(p, <<"/">>) - 1)

\* os.makedirs(d, exist_ok=True) for a directory d whose parent exists
MakeDirs(f, d) == (d :> Directory) @@ f

\* os.rename(src, dst): the entry moves, an entry at dst is replaced
Rename(f, src, dst) ==
    [p \in (DOMAIN f \ {src}) \cup {dst} |-> IF p = dst THEN f[src] ELSE f[p]]

NoException == "none"

\* shutil.move(src, dst) for a file src: into dst when dst is a directory,
\* else a rename, which fails when the directory of dst does not exist
ShutilMove(f, src, dst) ==
    IF dst \in DOMAIN f /\ f[dst] = Directory
    THEN LET real_dst == PathJoin(dst, Basename(src))
         IN  IF real_dst \in DOMAIN f
             THEN [exception |-> "shutil.Error", fs |-> f]
             ELSE [exception |-> NoException, fs |-> Rename(f, src, real_dst)]
    ELSE IF Dirname(dst) \notin DOMAIN f
         THEN [exception |-> "FileNotFoundError", fs |-> f]
         ELSE [exception |-> NoException, fs |-> Rename(f, src, dst)]

\* the destination is not tested before the move
move_file_NoExistsCheck(original_filepath, new_path, new_filename, create_dirs, overwrite) ==
    IF ~Exists(original_filepath)
    THEN [result |-> Raise("FileNotFoundError"), fs |-> fs]
    ELSE LET destination_dir == new_path
             made == IF create_dirs /\ ~Exists(destination_dir)
                     THEN MakeDirs(fs, destination_dir)
                     ELSE fs
             destination_filepath == PathJoin(destination_dir, new_filename)
             moved == ShutilMove(made, original_filepath,
                                 destination_filepath)
         IN  IF moved.exception # NoException
             THEN [result |-> Raise(moved.exception), fs |-> moved.fs]
             ELSE [result |-> Return(destination_filepath),
                   fs |-> moved.fs]

move_file(original_filepath, new_path, new_filename, create_dirs, overwrite) ==
    IF ~Exists(original_filepath)
    THEN [result |-> Raise("FileNotFoundError"), fs |-> fs]
    ELSE LET destination_dir == new_path
             made == IF create_dirs /\ ~Exists(destination_dir)
                     THEN MakeDirs(fs, destination_dir)
                     ELSE fs
             destination_filepath == PathJoin(destination_dir, new_filename)
         IN  IF destination_filepath \in DOMAIN made /\ ~overwrite
             THEN [result |-> Raise("FileExistsError"), fs |-> made]
             ELSE LET moved == ShutilMove(made, original_filepath,
                                          destination_filepath)
                  IN  IF moved.exception # NoException
                      THEN [result |-> Raise(moved.exception),
                            fs |-> moved.fs]
                      ELSE [result |-> Return(destination_filepath),
                            fs |-> moved.fs]

----------------------------------------------------------------------------
(* Inputs *)

SeqUpTo(S, n) == UNION {[1..k -> S] : k \in 0..n}

T == <<"t">>
S == <<"s">>
FieldNames == {T, S}

MetaValues ==
    {StrVal(<<"A">>), StrVal(<<"5">>), StrVal(<<"A", "5">>), IntVal(5),
     NoneVal}

\* the pattern a{4294967295}
HugeRepeat == <<"a", "{">> \o MAXREPEAT \o <<"}">>

LeafValues ==
    MetaValues \cup {StrVal(<< >>), StrVal(<<"^", "A">>), StrVal(<<"[">>),
                     StrVal(HugeRepeat)}

Operators ==
    {"equals", "not_equals", "contains", "starts_with", "ends_with",
     "regex", "matches"}

\* metadata records: every subset of the fields, every value
MetadataOver(values) ==
    UNION {[D -> values] : D \in SUBSET FieldNames}

Metadatas == MetadataOver(MetaValues)

Leaves == {Leaf(f, o, v) : f \in FieldNames, o \in Operators, v \in LeafValues}

\* the leaves groups are generated from: one that is true or false with the
\* metadata, one that raises when its field is present
GroupLeaves ==
    {Leaf(T, "equals", StrVal(<<"A">>)), Leaf(S, "contains", IntVal(5))}

GroupMetadatas == MetadataOver({StrVal(<<"A">>), IntVal(5)})

Logics == {AND, OR, <<"a", "n", "d">>, <<"X", "O", "R">>}

InnerGroups ==
    {Group(l, r) : l \in {AND, OR}, r \in SeqUpTo(GroupLeaves, MaxInner)}

Groups ==
    {Group(l, r) : l \in Logics,
                   r \in SeqUpTo(GroupLeaves \cup InnerGroups, MaxChildren)}

\* 'when' mappings: every order of every subset of the fields, each with a
\* scalar or a list of scalars
WhenScalars == {StrVal(<<"A">>), StrVal(<<"5">>), IntVal(5)}

WhenValues ==
    WhenScalars \cup {ListVal(l) : l \in SeqUpTo(WhenScalars, MaxWhenList)}

WhenItems == {[field |-> f, value |-> v] : f \in FieldNames, v \in WhenValues}

Whens ==
    {w \in SeqUpTo(WhenItems, Cardinality(FieldNames)) :
        \A i, j \in 1..Len(w) : w[i].field = w[j].field => i = j}

WhenMetadatas == MetadataOver(WhenScalars)

----------------------------------------------------------------------------
(* Calls of the condition evaluator on a constructed FileSorter *)

EmptyConfig == [rules |-> << >>]
OutputDir == <<"/", "o">>
NoTemplates == << >>
\* no call has been made on the FileSorter yet
NoCall == [op |-> "none"]
\* no thread is calling, main is not running
NoThreads == << >>
NoBatch == [pc |-> "none"]

InitEval ==
    /\ config_file = EmptyConfig
    /\ config = _load_config(config_file)
    /\ templates = Get(config_file, "templates", NoTemplates)
    /\ base_output_dir = OutputDir
    /\ fs = NoFiles
    /\ call = NoCall
    /\ threads = NoThreads
    /\ batch = NoBatch

EvaluateCondition(condition, metadata) ==
    /\ call = NoCall
    /\ call' = [op |-> "_evaluate_condition",
                condition |-> condition,
                metadata |-> metadata,
                result |-> _evaluate_condition(condition, metadata)]
    /\ UNCHANGED <<config_file, config, templates, base_output_dir, fs, threads,
                 batch>>

EvaluateConditions(conditions, metadata) ==
    /\ call = NoCall
    /\ call' = [op |-> "_evaluate_conditions",
                condition |-> conditions,
                metadata |-> metadata,
                result |-> _evaluate_conditions(conditions, metadata)]
    /\ UNCHANGED <<config_file, config, templates, base_output_dir, fs, threads,
                 batch>>

EvaluateLeaf ==
    /\ call = NoCall
    /\ \E c \in Leaves, m \in Metadatas : EvaluateCondition(c, m)

EvaluateNested ==
    /\ call = NoCall
    /\ \E c \in Groups, m \in GroupMetadatas : EvaluateCondition(c, m)

EvaluateGroup ==
    /\ call = NoCall
    /\ \E c \in Groups, m \in GroupMetadatas : EvaluateConditions(c, m)

NextEval == EvaluateLeaf \/ EvaluateNested \/ EvaluateGroup

SpecEval == InitEval /\ [][NextEval]_vars

----------------------------------------------------------------------------
(* A FileSorter built from a document with one rule written in the 'when'  *)
(* shorthand                                                               *)

WhenRule(when) ==
    [name |-> "R1", when |-> when, path |-> <<"P">>, filename |-> <<"F">>]

\* a rule that carries neither 'conditions' nor 'when'
BareRule == [name |-> "R0", path |-> <<"P">>, filename |-> <<"F">>]

InitWhen ==
    /\ config_file \in {[rules |-> <<WhenRule(w)>>] : w \in Whens}
                           \cup {[rules |-> <<BareRule>>]}
    /\ config = _load_config(config_file)
    /\ templates = Get(config_file, "templates", NoTemplates)
    /\ base_output_dir = OutputDir
    /\ fs = NoFiles
    /\ call = NoCall
    /\ threads = NoThreads
    /\ batch = NoBatch

ConvertWhen(when) ==
    /\ call = NoCall
    /\ call' = [op |-> "_convert_when_to_conditions",
                when |-> when,
                result |-> _convert_when_to_conditions(when)]
    /\ UNCHANGED <<config_file, config, templates, base_output_dir, fs, threads,
                 batch>>

FindAllMatchingRules(metadata) ==
    /\ call = NoCall
    /\ call' = [op |-> "_find_all_matching_rules",
                metadata |-> metadata,
                result |-> _find_all_matching_rules(config, metadata)]
    /\ UNCHANGED <<config_file, config, templates, base_output_dir, fs, threads,
                 batch>>

ConvertDocumentWhen ==
    /\ "when" \in DOMAIN config_file["rules"][1]
    /\ ConvertWhen(config_file["rules"][1]["when"])

MatchWhenRule ==
    /\ call = NoCall
    /\ \E m \in WhenMetadatas : FindAllMatchingRules(m)

NextWhen == ConvertDocumentWhen \/ MatchWhenRule

SpecWhen == InitWhen /\ [][NextWhen]_vars

----------------------------------------------------------------------------
(* A FileSorter built from a configuration document, and the calls that    *)
(* classify a file                                                         *)

A == StrVal(<<"A">>)

\* the rules a document is written from: canonical and shorthand conditions,
\* a catch-all, a rule without conditions, a rule without name, a bare leaf
\* as top-level condition, a leaf with a number as `contains` value, a path
\* taken from a field, a test of the injected filename
RulePool ==
    {[name |-> "A",
      conditions |-> Group(AND, <<Leaf(T, "equals", A)>>),
      path |-> <<"P", "/", "{", "t", "}">>,
      filename |-> <<"{", "t", "}", "{", "e", "x", "t", "}">>],
     [name |-> "B", when |-> <<[field |-> T, value |-> A]>>],
     [name |-> "C",
      conditions |-> Group(OR, <<Leaf(T, "equals", IntVal(5)),
                                 Leaf(S, "equals", A)>>),
      path |-> <<"Q">>],
     [conditions |-> Group(AND, << >>), path |-> <<"R">>],
     [name |-> "L", conditions |-> Leaf(T, "equals", A), path |-> <<"L">>],
     [name |-> "X",
      conditions |-> Group(AND, <<Leaf(S, "contains", IntVal(5))>>)],
     [name |-> "N", path |-> <<"{", "s", "}">>],
     [name |-> "F",
      conditions |-> Group(AND, <<Leaf(FILENAME, "equals",
                                       StrVal(<<"r", ".", "p">>))>>),
      path |-> <<"F">>],
     [name |-> "W",
      when |-> <<[field |-> T, value |-> ListVal(<<A, IntVal(5)>>)],
                 [field |-> S, value |-> A]>>],
     [name |-> "G",
      conditions |->
          Group(AND, <<Group(OR, <<Leaf(T, "equals", A),
                                   Leaf(T, "equals", IntVal(5))>>),
                       Leaf(S, "not_equals", A)>>)]}

SnippetTable == <<"n">> :> <<"{", "t", "}">>

Documents ==
    {[rules |-> r] : r \in SeqUpTo(RulePool, MaxRules)}
        \cup {[rules |-> r, templates |-> SnippetTable] :
                 r \in SeqUpTo(RulePool, 1)}
        \cup {[templates |-> SnippetTable]}

ExistingFile == <<"d", "/", "r", ".", "p">>
MissingFile == <<"g", ".", "p">>

\* the keywords of a call: the fields with a text or a number, a field that
\* holds an absolute path, a keyword named filename
CallMetadatas ==
    MetadataOver({A, IntVal(5)})
        \cup {S :> StrVal(<<"/", "e">>),
              FILENAME :> A,
              (FILENAME :> A) @@ (T :> A)}

Init ==
    /\ config_file \in Documents
    /\ config = _load_config(config_file)
    /\ templates = Get(config_file, "templates", NoTemplates)
    /\ base_output_dir = OutputDir
    /\ fs = (<<"d">> :> Directory) @@ (ExistingFile :> "c1")
    /\ call = NoCall
    /\ threads = NoThreads
    /\ batch = NoBatch

\* the call keeps only the rules that matched in the configuration
GetNewLocation_NarrowsRules(original_filepath, metadata) ==
    /\ call = NoCall
    /\ call' = [op |-> "get_new_location",
                original_filepath |-> original_filepath,
                metadata |-> metadata,
                result |-> get_new_location(original_filepath, metadata)]
    /\ LET found == _find_all_matching_rules(
                        config, FileMetadata(original_filepath, metadata))
       IN  config' = IF "rules" \in DOMAIN config /\ found.kind = "return"
                     THEN [config EXCEPT !["rules"] = found.value]
                     ELSE config
    /\ UNCHANGED <<config_file, templates, base_output_dir, fs, threads, batch>>

GetNewLocation(original_filepath, metadata) ==
    /\ call = NoCall
    /\ call' = [op |-> "get_new_location",
                original_filepath |-> original_filepath,
                metadata |-> metadata,
                result |-> get_new_location(original_filepath, metadata)]
    /\ UNCHANGED <<config_file, config, templates, base_output_dir, fs, threads,
                 batch>>

PlanFile ==
    /\ call = NoCall
    /\ \E f \in {ExistingFile, MissingFile}, m \in CallMetadatas :
           GetNewLocation(f, m)

MatchRules ==
    /\ call = NoCall
    /\ \E m \in CallMetadatas : FindAllMatchingRules(m)

Next == PlanFile \/ MatchRules

Spec == Init /\ [][Next]_vars

----------------------------------------------------------------------------
(* Calls of the template resolver on a FileSorter built from a document    *)
(* that defines snippets                                                   *)

\* "$template.<name>"
Ref(name) == TemplatePrefix \o name

RECURSIVE Concat(_)
Concat(parts) ==
    IF parts = << >> THEN << >> ELSE Head(parts) \o Concat(Tail(parts))

SnippetNames == {<<"a">>, <<"b">>}

\* snippet bodies: a field placeholder, plain text, a reference to another
\* snippet, a fallback chain
SnippetBodies ==
    {<<"{", "t", "}">>,
     <<"X">>,
     Ref(<<"b">>),
     <<"{", "s", "|", "'", "Y", "'", "}">>}

SnippetTables == UNION {[D -> SnippetBodies] : D \in SUBSET SnippetNames}

\* the pieces templates with references are written from; "ab" is never
\* defined
SnippetTokens ==
    {Ref(<<"a">>), Ref(<<"a", "b">>), Ref(<<"b">>), <<"{", "t", "}">>,
     <<"-">>}

SnippetTemplates ==
    {Concat(parts) : parts \in SeqUpTo(SnippetTokens, MaxTokens)}

\* the options fallback chains are written from: field names (one padded
\* with blanks), the injected field, a single- and a double-quoted literal
ChainOptions ==
    {T, <<" ", "s", " ">>, FILENAME, <<"'", "X", "'">>, <<"\"", "Y", "\"">>}

RECURSIVE JoinOptions(_)
JoinOptions(options) ==
    IF Len(options) <= 1 THEN Concat(options)
    ELSE Head(options) \o <<"|">> \o JoinOptions(Tail(options))

\* "{o1|...|on}", and "{}" for no option at all
ChainTemplates ==
    {<<"{">> \o JoinOptions(options) \o <<"}">> :
        options \in SeqUpTo(ChainOptions, MaxOptions)}

NoMetadata == << >>

\* the records with field k absent or holding one of the values
OptionalField(k, values) == {NoMetadata} \cup {k :> v : v \in values}

ExistingName == <<"r", ".", "p">>

\* t is absent, text, blank, null or a number; s absent, text or null; the
\* injected filename is there or not
ChainMetadatas ==
    {DictUpdate(DictUpdate(a, b), c) :
        a \in OptionalField(T, {A, StrVal(<<" ">>), NoneVal, IntVal(5)}),
        b \in OptionalField(S, {StrVal(<<"B">>), NoneVal}),
        c \in OptionalField(FILENAME, {StrVal(ExistingName)})}

SpecialTemplates ==
    {<<"{">> \o ORIGINAL \o <<"}">>,
     <<"{">> \o EXT \o <<"}">>,
     <<"{">> \o ORIGINAL \o <<"}", "/", "{">> \o EXT \o <<"}">>}

\* the names a file can have, over a letter and the dot
FileNames ==
    SeqUpTo({"r", "."}, MaxNameLen) \ {<< >>, <<".">>, <<".", ".">>}

InitResolve ==
    /\ config_file \in {[templates |-> table] : table \in SnippetTables}
    /\ config = _load_config(config_file)
    /\ templates = Get(config_file, "templates", NoTemplates)
    /\ base_output_dir = OutputDir
    /\ fs = NoFiles
    /\ call = NoCall
    /\ threads = NoThreads
    /\ batch = NoBatch

ReplacePlaceholders(template, metadata, original_filename) ==
    /\ call = NoCall
    /\ call' = [op |-> "_replace_placeholders",
                template |-> template,
                metadata |-> metadata,
                original_filename |-> original_filename,
                result |-> _replace_placeholders(template, metadata,
                                                 original_filename,
                                                 templates)]
    /\ UNCHANGED <<config_file, config, templates, base_output_dir, fs, threads,
                 batch>>

ResolveSnippets ==
    /\ call = NoCall
    /\ \E template \in SnippetTemplates, m \in {NoMetadata, T :> A} :
           ReplacePlaceholders(template, m, ExistingName)

ResolveChain ==
    /\ call = NoCall
    /\ \E template \in ChainTemplates, m \in ChainMetadatas :
           ReplacePlaceholders(template, m, ExistingName)

ResolveSpecial ==
    /\ call = NoCall
    /\ \E template \in SpecialTemplates, name \in FileNames :
           ReplacePlaceholders(template, FILENAME :> StrVal(name), name)

\* text without tokens: letters, lone braces, "{}", the reference prefix
\* without a name
PlainPieces == {<<"a">>, <<"{">>, <<"}">>, TemplatePrefix}

PlainTemplates == {Concat(parts) : parts \in SeqUpTo(PlainPieces, MaxPlain)}

ResolvePlain ==
    /\ call = NoCall
    /\ \E template \in PlainTemplates,
          m \in {NoMetadata, <<"a">> :> StrVal(<<"B">>)} :
           ReplacePlaceholders(template, m, ExistingName)

\* templates of field placeholders and text, resolved with values that
\* hold template syntax themselves
InjectedPieces == {<<"{", "t", "}">>, <<"{", "s", "}">>, <<"-">>}

InjectedTemplates ==
    {Concat(parts) : parts \in SeqUpTo(InjectedPieces, MaxTokens)}

InjectedMetadatas ==
    {(T :> StrVal(t)) @@ (S :> StrVal(v)) :
        t \in {<<"{", "s", "}">>, Ref(<<"a">>), <<"A">>},
        v \in {<<"B">>, <<"{", "t", "}">>}}

\* {'$template.a'} and {'{s}'}: quoted literals that hold template syntax
LiteralRef == <<"{", "'">> \o Ref(<<"a">>) \o <<"'", "}">>
LiteralBraces == <<"{", "'", "{", "s", "}", "'", "}">>

ResolveInjected ==
    /\ call = NoCall
    /\ \E template \in InjectedTemplates \cup {LiteralRef, LiteralBraces},
          m \in InjectedMetadatas :
           ReplacePlaceholders(template, m, ExistingName)

NextResolve ==
    \/ ResolveSnippets
    \/ ResolveChain
    \/ ResolveSpecial
    \/ ResolvePlain
    \/ ResolveInjected

SpecResolve == InitResolve /\ [][NextResolve]_vars

----------------------------------------------------------------------------
(* Calls of move_file on a file system with an input directory /i and an   *)
(* output directory /o                                                     *)

InputFile == <<"/", "i", "/", "a">>
OutputX == <<"/", "o", "/", "x">>
OutputY == <<"/", "o", "/", "y">>

InputTree ==
    (<<"/", "i">> :> Directory) @@ (OutputDir :> Directory)
        @@ (InputFile :> "c1")

\* the output directory is empty, holds a file x, or holds a file x and a
\* directory y
FileSystems ==
    {InputTree,
     (OutputX :> "c2") @@ InputTree,
     (OutputX :> "c2") @@ (OutputY :> Directory) @@ InputTree}

SourcePaths == {InputFile, OutputX}
DestinationDirs == {OutputDir, <<"/", "n">>}
DestinationNames == {<<"x">>, <<"y">>}

InitMove ==
    /\ config_file = EmptyConfig
    /\ config = _load_config(config_file)
    /\ templates = Get(config_file, "templates", NoTemplates)
    /\ base_output_dir = OutputDir
    /\ fs \in FileSystems
    /\ call = NoCall
    /\ threads = NoThreads
    /\ batch = NoBatch

MoveFile(original_filepath, new_path, new_filename, create_dirs, overwrite) ==
    LET done == move_file(original_filepath, new_path, new_filename,
                          create_dirs, overwrite)
    IN  /\ call' = [op |-> "move_file",
                    original_filepath |-> original_filepath,
                    new_path |-> new_path,
                    new_filename |-> new_filename,
                    create_dirs |-> create_dirs,
                    overwrite |-> overwrite,
                    result |-> done.result]
        /\ fs' = done.fs
        /\ UNCHANGED <<config_file, config, templates, base_output_dir,
                       threads, batch>>

MoveAFile ==
    \E src \in SourcePaths, dir \in DestinationDirs,
       name \in DestinationNames, create_dirs \in BOOLEAN,
       overwrite \in BOOLEAN :
        MoveFile(src, dir, name, create_dirs, overwrite)

NextMove == MoveAFile

SpecMove == InitMove /\ [][NextMove]_vars

----------------------------------------------------------------------------
(* Properties of the condition evaluator, checked under SpecEval *)

IsEvaluation == call.op \in {"_evaluate_condition", "_evaluate_conditions"}

\* the call evaluated a leaf {field, operator, value} by _evaluate_condition
IsLeafCall ==
    call.op = "_evaluate_condition" /\ "logic" \notin DOMAIN call.condition

\* C5: condition evaluation and template resolution are total; stated here
\* for the evaluator: for every condition tree and metadata record, also
\* with leaf values and metadata values that are numbers or null,
\* _evaluate_condition/_evaluate_conditions return a boolean and never raise.
C5_EvaluationNeverRaises ==
    IsEvaluation => call.result \in {"True", "False"}

C9_MissingFieldIsFalse ==
    (IsLeafCall /\ call.condition.field \notin DOMAIN call.metadata) =>
        call.result = "False"

\* a not_equals leaf was evaluated on a record without its field
C9_Witness ==
    /\ IsLeafCall
    /\ call.condition.operator = "not_equals"
    /\ call.condition.field \notin DOMAIN call.metadata
    /\ call.metadata # << >>
    /\ call.result = "False"

\* C10: a group with an empty rules sequence evaluates to true for every
\* metadata record, for logic AND and for logic OR alike.
C10_EmptyGroupIsTrue ==
    (/\ IsEvaluation
     /\ "logic" \in DOMAIN call.condition
     /\ call.condition.logic \in {AND, OR}
     /\ call.condition.rules = << >>) =>
        call.result = "True"

\* an OR group without rules was evaluated on a non-empty record
C10_Witness ==
    /\ call.op = "_evaluate_conditions"
    /\ call.condition = Group(OR, << >>)
    /\ call.metadata # << >>
    /\ call.result = "True"

KnownOperators ==
    {"equals", "not_equals", "contains", "starts_with", "ends_with", "regex"}

\* the value is a text the re module does not compile
PatternFailsToCompile(value) ==
    value.kind = "str" /\ (~ReCompiles(value.s) \/ ReOverflows(value.s))

\* C11: leaf evaluation is fail-closed: a leaf whose operator is not one of
\* the six known operators, or a regex leaf whose pattern fails to compile,
\* evaluates to false for every metadata record and does not raise.
C11_LeafFailsClosed ==
    (/\ IsLeafCall
     /\ \/ call.condition.operator \notin KnownOperators
        \/ /\ call.condition.operator = "regex"
           /\ PatternFailsToCompile(call.condition.value))
        => call.result = "False"

----------------------------------------------------------------------------
(* Properties of the 'when' shorthand, checked under SpecWhen *)

\* the mapping of the document's rule; a rule without 'when' constrains no
\* field
DocumentWhen == Get(config_file["rules"][1], "when", << >>)

\* the record satisfies the mapping as the shorthand is documented: every
\* field equals its scalar, or one of the values of its list
WhenHolds(when, metadata) ==
    \A i \in 1..Len(when) :
        /\ when[i].field \in DOMAIN metadata
        /\ LET file_value == metadata[when[i].field]
                value == when[i].value
           IN  IF value.kind = "list"
               THEN \E j \in 1..Len(value.items) :
                        PyEq(file_value, value.items[j])
               ELSE PyEq(file_value, value)

\* C6: a rule compiled from the 'when' mapping matches a metadata record if
\* and only if, for every field of the mapping, the record's value equals
\* the scalar given or one of the values of the list given, also when a
\* list-valued field is combined with other fields.  (Stated for mappings
\* whose lists hold at least one value.)
C6_WhenMatchesPerField ==
    (/\ call.op = "_find_all_matching_rules"
     /\ call.result.kind = "return"
     /\ \A i \in 1..Len(DocumentWhen) :
            DocumentWhen[i].value.kind = "list" =>
                DocumentWhen[i].value.items # << >>) =>
        ((call.result.value # << >>) <=>
            WhenHolds(DocumentWhen, call.metadata))

IsListOf(value, n) == value.kind = "list" /\ Len(value.items) >= n

\* C7: {field: [v1, v2, ...]} yields an OR group of equals-leaves in input
\* order, one per listed value; several distinct fields with scalars yield
\* an AND group with one equals-leaf per field; a single scalar field
\* yields an AND group with exactly one equals-leaf; whenever two or more
\* leaves all target the same field the group is OR.
C7_ConvertShape ==
    call.op = "_convert_when_to_conditions" =>
        LET when == call.when
            result == call.result
            leaves == result.rules
        IN  /\ DOMAIN result = {"logic", "rules"}
            /\ \A i \in 1..Len(leaves) :
                   /\ DOMAIN leaves[i] = {"field", "operator", "value"}
                   /\ leaves[i].operator = "equals"
            /\ (Len(when) = 1 /\ IsListOf(when[1].value, 2)) =>
                   /\ result.logic = OR
                   /\ Len(leaves) = Len(when[1].value.items)
                   /\ \A j \in 1..Len(leaves) :
                          /\ leaves[j].field = when[1].field
                          /\ leaves[j].value = when[1].value.items[j]
            /\ (Len(when) >= 2 /\
                    \A i \in 1..Len(when) : when[i].value.kind # "list") =>
                   /\ result.logic = AND
                   /\ Len(leaves) = Len(when)
                   /\ \A i \in 1..Len(when) :
                          /\ leaves[i].field = when[i].field
                          /\ leaves[i].value = when[i].value
            /\ (Len(when) = 1 /\ when[1].value.kind # "list") =>
                   /\ result.logic = AND
                   /\ Len(leaves) = 1
                   /\ leaves[1].field = when[1].field
                   /\ leaves[1].value = when[1].value
            /\ (Len(leaves) >= 2 /\
                    \A i \in 1..Len(leaves) : leaves[i].field = leaves[1].field)
                   => result.logic = OR

\* a one-field mapping with a list of two different values was compiled
C7_Witness ==
    /\ call.op = "_convert_when_to_conditions"
    /\ Len(call.when) = 1
    /\ IsListOf(call.when[1].value, 2)
    /\ call.when[1].value.items[1] # call.when[1].value.items[2]
    /\ call.result.logic = OR
    /\ Len(call.result.rules) >= 2

----------------------------------------------------------------------------
(* Properties of rule matching, checked under Spec *)

ConfiguredRules == Get(config, "rules", << >>)

\* the matcher's test of rule i (line 256) is true for the record
Satisfied(i, metadata) ==
    _evaluate_conditions(Get(ConfiguredRules[i], "conditions", NoConditions),
                         metadata) = "True"

SatisfiedRules(metadata) ==
    {i \in 1..Len(ConfiguredRules) : Satisfied(i, metadata)}

\* the k-th smallest member of a set of rule positions
Kth(I, k) == CHOOSE i \in I : Cardinality({j \in I : j < i}) = k - 1

IsPlanned ==
    call.op = "get_new_location" /\ Exists(call.original_filepath)

PlannedMetadata == FileMetadata(call.original_filepath, call.metadata)

\* C1: for an existing source file get_new_location succeeds if and only if
\* exactly one configured rule's condition is satisfied by the metadata:
\* with none it fails with the no-rule error, with two or more with the
\* ambiguous-rule error, and with exactly one it returns that rule's name.
C1_ExactlyOneRule ==
    IsPlanned =>
        LET I == SatisfiedRules(PlannedMetadata)
            n == Cardinality(I)
        IN  /\ (call.result.kind = "return") <=> (n = 1)
            /\ n = 0 => call.result = NoRuleError
            /\ n >= 2 =>
                   /\ call.result.kind = "raise"
                   /\ call.result.exception = "ValueError"
                   /\ call.result.message = "Multiple rules matched"
            /\ n = 1 =>
                   call.result.value.rule_name =
                       Get(ConfiguredRules[Kth(I, 1)], "name", Unnamed)

IsAmbiguous ==
    /\ call.op = "get_new_location"
    /\ call.result.kind = "raise"
    /\ call.result.exception = "ValueError"
    /\ call.result.message = "Multiple rules matched"

\* C2: the ambiguous-rule failure of get_new_location names every matched
\* rule and no unmatched rule, in configuration order.
C2_AmbiguityNamesMatches ==
    IsAmbiguous =>
        LET I == SatisfiedRules(PlannedMetadata)
            rule_names == call.result.rule_names
        IN  /\ Cardinality(I) > 1
            /\ Len(rule_names) = Cardinality(I)
            /\ \A k \in 1..Len(rule_names) :
                   rule_names[k] =
                       Get(ConfiguredRules[Kth(I, k)], "name", Unnamed)

\* two rules with different names matched and the failure names them
C2_Witness ==
    /\ IsAmbiguous
    /\ Len(call.result.rule_names) = 2
    /\ call.result.rule_names[1] # call.result.rule_names[2]
    /\ Cardinality(SatisfiedRules(PlannedMetadata)) < Len(ConfiguredRules)

C4_BareLeafIsTested ==
    (call.op = "_find_all_matching_rules" /\ call.result.kind = "return") =>
        \A i \in 1..Len(ConfiguredRules) :
            LET rule == ConfiguredRules[i]
            IN  (/\ "conditions" \in DOMAIN rule
                 /\ DOMAIN rule["conditions"] = {"field", "operator", "value"})
                => ((\E k \in 1..Len(call.result.value) :
                        call.result.value[k] = rule)
                    <=> (_evaluate_condition(rule["conditions"],
                                             call.metadata) = "True"))

----------------------------------------------------------------------------
(* Properties of the template resolver, checked under SpecResolve *)

IsResolution == call.op = "_replace_placeholders"

\* the template is one "{...}" token
IsOnePlaceholder(template) ==
    /\ Len(template) >= 3
    /\ Head(template) = "{"
    /\ template[Len(template)] = "}"
    /\ \A i \in 2..(Len(template) - 1) : template[i] \notin {"{", "}"}

Content(template) == SubSeq(template, 2, Len(template) - 1)

\* the snippet names referenced by "$template.<name>" tokens of s
ReferencedNames(s) ==
    LET matches == FindTemplateNames(s, 1)
    IN  {matches[k] : k \in 1..Len(matches)}

\* the call resolved one placeholder that is a fallback chain (and holds no
\* snippet reference, so that the placeholder is the one written)
IsChainCall ==
    /\ IsResolution
    /\ IsOnePlaceholder(call.template)
    /\ Content(call.template) \notin {ORIGINAL, EXT}
    /\ ReferencedNames(call.template) = {}

HasBrace(text) == \E i \in 1..Len(text) : text[i] \in {"{", "}"}

\* o1, ..., on of the chain {o1|...|on}, without the blanks around them
OptionsOf(content) ==
    LET parts == Split(content, "|")
    IN  [k \in 1..Len(parts) |-> Strip(parts[k])]

IsLiteral(o) ==
    Len(o) >= 2 /\ \E q \in {"'", "\""} : Head(o) = q /\ o[Len(o)] = q

\* the field is present, not null and not blank
FieldResolves(o, metadata) ==
    /\ o \in DOMAIN metadata
    /\ metadata[o] # NoneVal
    /\ \E i \in 1..Len(PyStr(metadata[o])) :
           PyStr(metadata[o])[i] \notin Whitespace

Resolves(o, metadata) ==
    IsLiteral(o) \/ (o # FILENAME /\ FieldResolves(o, metadata))

OptionText(o, metadata) ==
    IF IsLiteral(o) THEN SubSeq(o, 2, Len(o) - 1) ELSE PyStr(metadata[o])

\* what the first option that resolves yields, the empty string if none
ChainValue(options, metadata) ==
    LET R == {k \in 1..Len(options) : Resolves(options[k], metadata)}
    IN  IF R = {} THEN << >>
        ELSE OptionText(options[CHOOSE k \in R : \A h \in R : k <= h],
                        metadata)

\* C12: a placeholder with a fallback chain {o1|...|on} resolves to the
\* first option, left to right, that is a quoted literal (its unquoted
\* contents) or a metadata field (other than filename) whose value is
\* present, non-null and non-blank (its text form); if no option resolves it
\* is replaced by the empty string, and no brace of the template is left in
\* the output.
C12_FirstResolvingOption ==
    IsChainCall =>
        /\ call.result = ChainValue(OptionsOf(Content(call.template)),
                                    call.metadata)
        /\ (\A k \in DOMAIN call.metadata :
                ~HasBrace(PyStr(call.metadata[k]))) =>
               ~HasBrace(call.result)

\* a chain whose first option does not resolve and whose second one is a
\* field that does
C12_Witness ==
    /\ IsChainCall
    /\ LET options == OptionsOf(Content(call.template))
       IN  /\ Len(options) = 2
           /\ ~Resolves(options[1], call.metadata)
           /\ ~IsLiteral(options[2])
           /\ Resolves(options[2], call.metadata)
           /\ call.result = PyStr(call.metadata[options[2]])

NotFilename(o) == o # FILENAME

\* C17: the field name filename is never used for field lookup inside a
\* placeholder: an option filename is skipped although the metadata record
\* holds a non-blank filename, so {filename} resolves to the empty string,
\* {filename|'X'} to X, and every chain to what it yields without its
\* filename options.
C17_FilenameIsNotLookedUp ==
    (IsChainCall /\ FieldResolves(FILENAME, call.metadata)) =>
        LET options == OptionsOf(Content(call.template))
            others == SelectSeq(options, NotFilename)
        IN  /\ options = <<FILENAME>> => call.result = << >>
            /\ options = <<FILENAME, <<"'", "X", "'">> >> =>
                   call.result = <<"X">>
            /\ call.result # PyStr(call.metadata[FILENAME])
            /\ others # << >> =>
                   call.result = ChainValue(others, call.metadata)

\* {filename|'X'} resolved with a record that holds a file name
C17_Witness ==
    /\ IsChainCall
    /\ OptionsOf(Content(call.template)) = <<FILENAME, <<"'", "X", "'">> >>
    /\ FieldResolves(FILENAME, call.metadata)
    /\ call.result = <<"X">>

\* the last extension of a file name: from its last dot on, when that dot
\* is neither the first nor the last character
LastExtension(name) ==
    LET dots == {i \in 1..Len(name) : name[i] = "."}
        last == IF dots = {} THEN 0
                ELSE CHOOSE i \in dots : \A j \in dots : j <= i
    IN  IF 1 < last /\ last < Len(name) THEN From(name, last) ELSE << >>

\* C18: {original} resolves to the original file name without its last
\* extension and {ext} to that last extension with its leading dot, the
\* empty string when there is none; the two concatenated are the original
\* file name.
C18_OriginalAndExt ==
    (IsResolution /\ call.template \in SpecialTemplates) =>
        LET name == call.original_filename
            ext == LastExtension(name)
            stem == SubSeq(name, 1, Len(name) - Len(ext))
        IN  /\ call.template = <<"{">> \o ORIGINAL \o <<"}">> =>
                   call.result = stem
            /\ call.template = <<"{">> \o EXT \o <<"}">> =>
                   call.result = ext
            /\ Len(call.template) > Len(ORIGINAL) + Len(EXT) =>
                   /\ call.result = stem \o <<"/">> \o ext
                   /\ stem \o ext = name

\* a name with two dots is split at the last one
C18_Witness ==
    /\ IsResolution
    /\ call.template \in SpecialTemplates
    /\ Len(call.template) > Len(ORIGINAL) + Len(EXT)
    /\ call.original_filename = <<"r", ".", "r", ".", "r">>
    /\ call.result = <<"r", ".", "r", "/", ".", "r">>

\* C13: for every template and template table, a $template.<identifier>
\* token whose identifier is not a key of the table appears unchanged in
\* the resolved output, whatever other snippets are defined or referenced
\* in the same template.
C13_UnknownReferenceIsKept ==
    IsResolution =>
        \A name \in ReferencedNames(call.template) :
            name \notin DOMAIN templates =>
                Contains(call.result, Ref(name))

\* C14: snippet expansion is single-level: a $template.<name> reference
\* that occurs inside the body of a snippet the template references is not
\* expanded and remains as literal text in the resolved output.
C14_SingleLevelExpansion ==
    IsResolution =>
        \A name \in ReferencedNames(call.template) \cap DOMAIN templates :
            \A inner \in ReferencedNames(templates[name]) :
                Contains(call.result, Ref(inner))

\* s with every token "$template.<name>" replaced by body, scanning from i
RECURSIVE ReplaceToken(_, _, _, _)
ReplaceToken(s, i, name, body) ==
    IF i > Len(s) THEN << >>
    ELSE LET n == i + Len(TemplatePrefix)
         IN  IF /\ n <= Len(s)
                /\ SubSeq(s, i, n - 1) = TemplatePrefix
                /\ s[n] \in WordChars
             THEN (IF SubSeq(s, n, WordEnd(s, n)) = name THEN body
                   ELSE SubSeq(s, i, WordEnd(s, n)))
                      \o ReplaceToken(s, WordEnd(s, n) + 1, name, body)
             ELSE <<s[i]>> \o ReplaceToken(s, i + 1, name, body)

\* C15: resolving a template that references a defined snippet gives the
\* same result as resolving the template with the token textually replaced
\* by the snippet's raw body, with the same metadata and original filename;
\* stated for snippet bodies that hold no snippet reference themselves.
C15_SnippetIsInlined ==
    IsResolution =>
        \A name \in ReferencedNames(call.template) \cap DOMAIN templates :
            ReferencedNames(templates[name]) = {} =>
                call.result =
                    _replace_placeholders(
                        ReplaceToken(call.template, 1, name, templates[name]),
                        call.metadata, call.original_filename, templates)

----------------------------------------------------------------------------
(* Properties of the location planner, checked under Spec *)

\* C16: inside get_new_location the metadata field filename used for rule
\* matching is always the base name of original_filepath, whatever keywords
\* the caller passes (a keyword named filename included); so a configuration
\* whose one rule tests filename against that base name always matches.
C16_FilenameIsBaseName ==
    IsPlanned =>
        /\ PlannedMetadata[FILENAME] =
               StrVal(Basename(call.original_filepath))
        /\ (/\ Len(ConfiguredRules) = 1
            /\ Get(ConfiguredRules[1], "name", Unnamed) = "F") =>
               /\ call.result.kind = "return"
               /\ call.result.value.rule_name = "F"

\* p is the directory base or lies below it; a path with a ".." component
\* is not counted as below
IsWithin(p, base) ==
    \/ p = base
    \/ /\ StartsWith(p, base \o <<"/">>)
       /\ ~Contains(p \o <<"/">>, <<"/", ".", ".", "/">>)

\* C19: every successful get_new_location call returns a directory path
\* that is base_output_dir itself or a descendant of it, for every rule path
\* template and every metadata value substituted into it.
C19_PathStaysInOutputDir ==
    (IsPlanned /\ call.result.kind = "return") =>
        IsWithin(call.result.value.path, base_output_dir)

----------------------------------------------------------------------------
(* Properties of move_file, checked under SpecMove *)

IsFile(f, p) == p \in DOMAIN f /\ f[p] # Directory

\* C20: move_file never destroys an existing file unless overwrite is true:
\* a call with overwrite false leaves every file other than the source in
\* place with its content, and when the destination already exists it
\* raises FileExistsError and leaves the source and the destination in
\* place and unchanged.
C20_NoOverwriteWithoutFlag ==
    [][(call'.op = "move_file" /\ ~call'.overwrite) =>
           LET src == call'.original_filepath
               dst == PathJoin(call'.new_path, call'.new_filename)
           IN  /\ \A p \in DOMAIN fs :
                      (IsFile(fs, p) /\ p # src) =>
                          (p \in DOMAIN fs' /\ fs'[p] = fs[p])
               /\ (Exists(src) /\ Exists(dst)) =>
                      /\ call'.result = Raise("FileExistsError")
                      /\ src \in DOMAIN fs' /\ fs'[src] = fs[src]
                      /\ dst \in DOMAIN fs' /\ fs'[dst] = fs[dst]]_vars

\* a call without overwrite met a destination file with another content
\* than the source, and both are there after the FileExistsError
C20_Witness ==
    /\ call.op = "move_file"
    /\ ~call.overwrite
    /\ call.result = Raise("FileExistsError")
    /\ LET dst == PathJoin(call.new_path, call.new_filename)
       IN  /\ IsFile(fs, call.original_filepath)
           /\ IsFile(fs, dst)
           /\ fs[dst] # fs[call.original_filepath]

\* C21: when move_file returns normally, the returned path is
\* join(new_path, new_filename), a file exists at that path and no file
\* exists any more at original_filepath (unless that is the destination
\* itself); when the source file does not exist it raises FileNotFoundError
\* before creating any directory or touching the destination.
C21_MoveResult ==
    [][call'.op = "move_file" =>
           LET src == call'.original_filepath
               dst == PathJoin(call'.new_path, call'.new_filename)
           IN  /\ call'.result.kind = "return" =>
                      /\ call'.result.value = dst
                      /\ IsFile(fs', dst)
                      /\ src # dst => src \notin DOMAIN fs'
               /\ ~Exists(src) =>
                      /\ call'.result = Raise("FileNotFoundError")
                      /\ fs' = fs]_vars

----------------------------------------------------------------------------
(* Further properties of the template resolver, checked under SpecResolve *)

\* s holds a "{...}" token: braces with at least one character between
HasPlaceholderToken(s) ==
    \E i, j \in 1..Len(s) :
        /\ s[i] = "{"
        /\ s[j] = "}"
        /\ j > i + 1
        /\ \A k \in (i + 1)..(j - 1) : s[k] # "}"

IsPlain(s) == ~HasPlaceholderToken(s) /\ ReferencedNames(s) = {}

\* C24: resolving a template string that contains no {...} token and no
\* $template.<name> token returns the string unchanged, for every metadata
\* record, original filename and template table.
C24_PlainTextIsUnchanged ==
    (IsResolution /\ IsPlain(call.template)) => call.result = call.template

\* a text with braces and the reference prefix, but without tokens, came
\* back unchanged from a sorter that defines snippets
C24_Witness ==
    /\ IsResolution
    /\ IsPlain(call.template)
    /\ HasBrace(call.template)
    /\ Contains(call.template, TemplatePrefix)
    /\ templates # NoTemplates
    /\ call.result = call.template

\* s with every "{f}" token of a one-letter field f replaced by the text
\* form of the field, scanning from i
RECURSIVE Verbatim(_, _, _)
Verbatim(s, i, metadata) ==
    IF i > Len(s) THEN << >>
    ELSE IF s[i] = "{"
         THEN PyStr(metadata[<<s[i + 1]>>]) \o Verbatim(s, i + 3, metadata)
         ELSE <<s[i]>> \o Verbatim(s, i + 1, metadata)

IsInjectedCall ==
    /\ IsResolution
    /\ call.template \in InjectedTemplates
    /\ call.metadata \in InjectedMetadatas

\* a metadata value that holds {...} or $template.<name> appears verbatim in
\* the resolved output
C27_MetadataValueIsVerbatim ==
    IsInjectedCall =>
        call.result = Verbatim(call.template, 1, call.metadata)

\* C27: text substituted for a placeholder is never read as template syntax:
\* a metadata value or a quoted literal that holds {...} or $template.<name>
\* appears verbatim in the resolved output.
C27_SubstitutedTextIsVerbatim ==
    /\ C27_MetadataValueIsVerbatim
    /\ (IsResolution /\ call.template = LiteralRef) =>
           call.result = Ref(<<"a">>)
    /\ (IsResolution /\ call.template = LiteralBraces) =>
           call.result = <<"{", "s", "}">>

----------------------------------------------------------------------------
(* Group evaluation, checked under SpecEval *)

\* the value of a condition, by structure: a leaf has the value of its test;
\* an empty group is true; a non-empty AND (OR) group has the value of its
\* first child that is not true (not false), and is true (false) without one
RECURSIVE Value(_, _)
Decisive(rules, metadata, neutral) ==
    {k \in 1..Len(rules) : Value(rules[k], metadata) # neutral}

Value(condition, metadata) ==
    IF "logic" \notin DOMAIN condition
    THEN SimpleCondition(condition, metadata)
    ELSE LET rules == condition.rules
             neutral == IF Upper(condition.logic) = AND THEN "True"
                        ELSE "False"
             stop == Decisive(rules, metadata, neutral)
         IN  IF rules = << >> THEN "True"
             ELSE IF Upper(condition.logic) \notin {AND, OR} THEN "False"
             ELSE IF stop = {} THEN neutral
             ELSE Value(rules[CHOOSE k \in stop : \A j \in stop : k <= j],
                        metadata)

IsGroupCall ==
    /\ IsEvaluation
    /\ "logic" \in DOMAIN call.condition
    /\ Upper(call.condition.logic) \in {AND, OR}
    /\ call.condition.rules # << >>

\* C25: a non-empty group evaluates, also when groups are nested, to the
\* conjunction of its children when logic is AND and to their disjunction
\* when logic is OR, left to right: an AND group is false as soon as a child
\* is false after true ones and an OR group is true as soon as a child is
\* true after false ones, whatever the later children are (they are not
\* evaluated, so one that would fail does not fail the group).
C25_GroupShortCircuits ==
    IsGroupCall =>
        LET rules == call.condition.rules
            m == call.metadata
            isAnd == Upper(call.condition.logic) = AND
            neutral == IF isAnd THEN "True" ELSE "False"
            decided == IF isAnd THEN "False" ELSE "True"
        IN  /\ (\A k \in 1..Len(rules) : Value(rules[k], m) = neutral) =>
                   call.result = neutral
            /\ (\E k \in 1..Len(rules) :
                   /\ Value(rules[k], m) = decided
                   /\ \A j \in 1..(k - 1) : Value(rules[j], m) = neutral) =>
                   call.result = decided

\* an AND group was false on its first child, a nested group, although its
\* second child fails when it is evaluated
C25_Witness ==
    /\ IsGroupCall
    /\ call.condition.logic = AND
    /\ Len(call.condition.rules) = 2
    /\ "logic" \in DOMAIN call.condition.rules[1]
    /\ Value(call.condition.rules[1], call.metadata) = "False"
    /\ Value(call.condition.rules[2], call.metadata) = "TypeError"
    /\ call.result = "False"

----------------------------------------------------------------------------
(* Rules without leaves, checked under SpecWhen *)

\* the mapping is empty or all its values are empty lists
NoLeaves(when) ==
    \A i \in 1..Len(when) :
        when[i].value.kind = "list" /\ when[i].value.items = << >>

DocumentRule == config_file["rules"][1]

\* C28: a rule that ends up with no leaves matches every metadata record: a
\* 'when' mapping that is empty or whose only values are empty lists
\* compiles to an AND group with an empty rules sequence, a rule carrying
\* neither 'conditions' nor 'when' is loaded without a condition, and in
\* all these cases _find_all_matching_rules returns the rule.
C28_NoLeavesMatchesAll ==
    /\ (call.op = "_convert_when_to_conditions" /\ NoLeaves(call.when)) =>
           call.result = Group(AND, << >>)
    /\ ("when" \in DOMAIN DocumentRule /\ NoLeaves(DocumentRule["when"])) =>
           config["rules"][1]["conditions"] = Group(AND, << >>)
    /\ DocumentRule = BareRule => config["rules"][1] = BareRule
    /\ (/\ call.op = "_find_all_matching_rules"
        /\ \/ DocumentRule = BareRule
           \/ /\ "when" \in DOMAIN DocumentRule
              /\ NoLeaves(DocumentRule["when"])) =>
           call.result = Return(<<config["rules"][1]>>)

\* a rule whose mapping holds one field with an empty list matched a record
\* that does not have the field
C28_Witness ==
    /\ call.op = "_find_all_matching_rules"
    /\ "when" \in DOMAIN DocumentRule
    /\ Len(DocumentRule["when"]) = 1
    /\ NoLeaves(DocumentRule["when"])
    /\ DocumentRule["when"][1].field \notin DOMAIN call.metadata
    /\ call.metadata # << >>
    /\ call.result = Return(<<config["rules"][1]>>)

----------------------------------------------------------------------------
(* The configuration during classification, checked under Spec *)

\* C26: after _load_config has returned, no call of get_new_location or
\* _find_all_matching_rules (and so none of the evaluator and resolver calls
\* they make) changes the rule list, a rule's condition tree or templates,
\* the snippet table, or the caller's metadata: the sorter's fields are what
\* the load left, whether the call returns or fails (the metadata is a value
\* of the call, the rules see a record built from it).
C26_ClassificationChangesNothing ==
    [][call'.op \in {"get_new_location", "_find_all_matching_rules"} =>
           /\ config' = config
           /\ config' = _load_config(config_file)
           /\ templates' = templates
           /\ templates' = Get(config_file, "templates", NoTemplates)
           /\ config_file' = config_file
           /\ base_output_dir' = base_output_dir
           /\ fs' = fs]_vars

\* a call that planned a file from a keyword record without filename, on a
\* sorter whose rules were compiled from 'when' at load; the record still
\* has no filename although the rules saw one
C26_Witness ==
    /\ call.op = "get_new_location"
    /\ call.result.kind = "return"
    /\ FILENAME \notin DOMAIN call.metadata
    /\ call.metadata # << >>
    /\ config # config_file
    /\ config = _load_config(config_file)

----------------------------------------------------------------------------
(* Concurrent calls of get_new_location on one FileSorter.  A thread runs  *)
(* the function in steps, one per group of statements that reads the file  *)
(* system or a field of the FileSorter; its locals are its record in       *)
(* `threads`, and steps of different threads interleave freely.            *)

Threads == 1..MaxThreads

NoResult == [kind |-> "none"]

IdleThread ==
    [pc |-> "idle", original_filepath |-> << >>, metadata |-> << >>,
     original_filename |-> << >>, file_metadata |-> << >>, rule |-> << >>,
     result |-> NoResult, interleaved |-> FALSE]

OtherFile == <<"d", "/", "q", ".", "p">>

ThreadFiles == {ExistingFile, OtherFile, MissingFile}

ThreadMetadatas == {T :> A, (T :> A) @@ (S :> A)}

\* documents of one or two different rules out of: a rule on field t, a
\* rule whose leaf raises when field s is present, a rule without conditions
ThreadRules ==
    {r \in RulePool : "name" \in DOMAIN r /\ r.name \in {"A", "X", "N"}}

ThreadDocuments ==
    {[rules |-> r] : r \in {q \in SeqUpTo(ThreadRules, 2) :
                               /\ q # << >>
                               /\ Len(q) = 2 => q[1] # q[2]}}

InitThreads ==
    /\ config_file \in ThreadDocuments
    /\ config = _load_config(config_file)
    /\ templates = Get(config_file, "templates", NoTemplates)
    /\ base_output_dir = OutputDir
    /\ fs = (<<"d">> :> Directory) @@ (ExistingFile :> "c1")
                @@ (OtherFile :> "c2")
    /\ call = NoCall
    /\ threads = [t \in Threads |-> IdleThread]
    /\ batch = NoBatch

InProgress(t) == threads[t].pc \notin {"idle", "done"}

\* thread t enters get_new_location(original_filepath, **metadata), for a
\* file no other thread was given
BeginCall(t, original_filepath, metadata) ==
    /\ threads[t].pc = "idle"
    /\ \A u \in Threads : threads[u].original_filepath # original_filepath
    /\ threads' = [threads EXCEPT ![t] =
           [threads[t] EXCEPT !.pc = "exists",
                     !.original_filepath = original_filepath,
                     !.metadata = metadata,
                     !.interleaved = \E u \in Threads : InProgress(u)]]
    /\ UNCHANGED <<config_file, config, templates, base_output_dir, fs, call,
                   batch>>

\* lines 291-299: the existence test, the base name, the record the rules
\* see
CheckFile(t) ==
    /\ threads[t].pc = "exists"
    /\ threads' = [threads EXCEPT ![t] =
           IF ~Exists(threads[t].original_filepath)
           THEN [threads[t] EXCEPT !.pc = "done",
                          !.result = Raise("FileNotFoundError")]
           ELSE [threads[t] EXCEPT !.pc = "match",
                          !.original_filename =
                              Basename(threads[t].original_filepath),
                          !.file_metadata =
                              FileMetadata(threads[t].original_filepath,
                                           threads[t].metadata)]]
    /\ UNCHANGED <<config_file, config, templates, base_output_dir, fs, call,
                   batch>>

\* the rules are matched against the record another call prepared
FindRules_SharedMetadata(t) ==
    /\ threads[t].pc = "match"
    /\ \E u \in Threads :
        /\ threads[u].file_metadata # << >>
        /\ LET found == _find_all_matching_rules(config,
                                                 threads[u].file_metadata)
               matching_rules == found.value
           IN  threads' = [threads EXCEPT ![t] =
                   IF found.kind = "raise"
                   THEN [threads[t] EXCEPT !.pc = "done", !.result = found]
                   ELSE IF Len(matching_rules) = 0
                   THEN [threads[t] EXCEPT !.pc = "done", !.result = NoRuleError]
                   ELSE IF Len(matching_rules) > 1
                   THEN [threads[t] EXCEPT !.pc = "done",
                                  !.result = MultipleRulesError(
                                                 RuleNames(matching_rules))]
                   ELSE [threads[t] EXCEPT !.pc = "resolve",
                                  !.rule = matching_rules[1]]]
    /\ UNCHANGED <<config_file, config, templates, base_output_dir, fs, call,
                   batch>>

\* lines 302-317: the matcher runs on self.config, and the call fails
\* unless exactly one rule matched
FindRules(t) ==
    /\ threads[t].pc = "match"
    /\ LET found == _find_all_matching_rules(config, threads[t].file_metadata)
           matching_rules == found.value
       IN  threads' = [threads EXCEPT ![t] =
               IF found.kind = "raise"
               THEN [threads[t] EXCEPT !.pc = "done", !.result = found]
               ELSE IF Len(matching_rules) = 0
               THEN [threads[t] EXCEPT !.pc = "done", !.result = NoRuleError]
               ELSE IF Len(matching_rules) > 1
               THEN [threads[t] EXCEPT !.pc = "done",
                              !.result = MultipleRulesError(
                                             RuleNames(matching_rules))]
               ELSE [threads[t] EXCEPT !.pc = "resolve",
                              !.rule = matching_rules[1]]]
    /\ UNCHANGED <<config_file, config, templates, base_output_dir, fs, call,
                   batch>>

\* lines 318-336: the templates of the rule are resolved with
\* self.templates and joined to self.base_output_dir
ResolveTemplates(t) ==
    /\ threads[t].pc = "resolve"
    /\ threads' = [threads EXCEPT ![t] =
           [threads[t] EXCEPT !.pc = "done",
                     !.result = NewLocation(threads[t].rule,
                                            threads[t].file_metadata,
                                            threads[t].original_filename)]]
    /\ UNCHANGED <<config_file, config, templates, base_output_dir, fs, call,
                   batch>>

ThreadBegins ==
    \E t \in Threads, f \in ThreadFiles, m \in ThreadMetadatas :
        BeginCall(t, f, m)
ThreadChecks == \E t \in Threads : CheckFile(t)
ThreadMatches == \E t \in Threads : FindRules(t)
ThreadResolves == \E t \in Threads : ResolveTemplates(t)

NextThreads ==
    \/ ThreadBegins
    \/ ThreadChecks
    \/ ThreadMatches
    \/ ThreadResolves

SpecThreads == InitThreads /\ [][NextThreads]_vars

\* C23: classification calls on one FileSorter are independent of each
\* other: under every interleaving of concurrent get_new_location calls for
\* different files, and under every order of sequential calls, each call
\* ends with the result (or the failure) it has when run alone on the
\* freshly loaded configuration.
C23_CallsAreIndependent ==
    /\ config = _load_config(config_file)
    /\ templates = Get(config_file, "templates", NoTemplates)
    /\ \A t \in Threads :
           threads[t].pc = "done" =>
               threads[t].result =
                   get_new_location(threads[t].original_filepath,
                                    threads[t].metadata)

\* two calls that overlapped have ended, one with a location and one with a
\* failure
C23_Witness ==
    \E t, u \in Threads :
        /\ threads[t].pc = "done"
        /\ threads[u].pc = "done"
        /\ threads[u].interleaved
        /\ threads[t].result.kind = "return"
        /\ threads[u].result.kind = "raise"
        /\ threads[t].metadata # threads[u].metadata

----------------------------------------------------------------------------
(* The batch loop of main (sort_tr_docs.py).  `batch` holds main's locals: *)
(* the list of PDF files, what the document index holds for each of them,  *)
(* the position of the loop and the four counters.  Fields t and s stand   *)
(* for the keywords main passes (postbox_type, document_title, ...), whose *)
(* values are texts or None.                                               *)

PdfNames == <<"a", "b", "c", "e">>

\* target_directory / name
PdfFile(k) == OutputDir \o <<"/", PdfNames[k]>>

CsvFile == OutputDir \o <<"/", "m">>

BatchMetadatas == [{T, S} -> {A, NoneVal}]

\* what the index yields for a file: the number of payloads that hold its
\* name (0, 1, or more), and for one match the event's timestamp (absent,
\* well-formed or not an ISO date) and the metadata of the event
Lookups ==
    {[matches |-> n, timestamp |-> "none", metadata |-> << >>] : n \in {0, 2}}
        \cup {[matches |-> 1, timestamp |-> ts, metadata |-> m] :
                 ts \in {"none", "valid", "malformed"}, m \in BatchMetadatas}

\* a rule on t with a fixed destination name and a rule on s that keeps the
\* name of the file; the same rule on s and a rule whose leaf raises
BatchRule(name) == CHOOSE r \in RulePool : "name" \in DOMAIN r /\ r.name = name

BatchDocuments ==
    {[rules |-> <<BatchRule("A"), BatchRule("C")>>],
     [rules |-> <<BatchRule("C"), BatchRule("X")>>]}

InitBatch ==
    /\ config_file \in BatchDocuments
    /\ config = _load_config(config_file)
    /\ templates = Get(config_file, "templates", NoTemplates)
    /\ base_output_dir = OutputDir
    /\ fs = [p \in {OutputDir} \cup {PdfFile(k) : k \in 1..MaxFiles} |->
                IF p = OutputDir THEN Directory ELSE "c1"]
    /\ call = NoCall
    /\ threads = NoThreads
    /\ \E n \in 1..MaxFiles :
        \E index \in [1..n -> Lookups] :
            batch = [pc |-> "loop",
                     pdf_files |-> [k \in 1..n |-> PdfFile(k)],
                     index |-> index,
                     i |-> 1,
                     matched_count |-> 0,
                     not_found_count |-> 0,
                     sorted_count |-> 0,
                     not_sorted_count |-> 0,
                     processed |-> << >>]

\* lines 145-151 after get_new_location has ended with `planned`: the
\* outcome of the try statement and the file system it leaves
MovePlanned(pdf_file, planned) ==
    IF planned.kind = "raise" THEN [result |-> planned, fs |-> fs]
    ELSE move_file(pdf_file, planned.value.path, planned.value.filename,
                   TRUE, FALSE)

\* lines 89-157: one pass of the loop body, for the file at position i.  An
\* exception raised outside the try statement (line 118) leaves main.
ProcessFile ==
    /\ batch.pc = "loop"
    /\ batch.i <= Len(batch.pdf_files)
    /\ LET pdf_file == batch.pdf_files[batch.i]
           found == batch.index[batch.i]
           next == [batch EXCEPT !.i = @ + 1,
                                 !.processed = Append(@, pdf_file)]
       IN  IF found.matches # 1
           THEN /\ batch' = [next EXCEPT !.not_found_count = @ + 1]
                /\ fs' = fs
           ELSE IF found.timestamp = "malformed"
           THEN /\ batch' = [batch EXCEPT !.pc = "raised",
                                          !.matched_count = @ + 1]
                /\ fs' = fs
           ELSE \E planned \in {get_new_location(pdf_file, found.metadata)} :
                \E done \in {MovePlanned(pdf_file, planned)} :
                    /\ batch' =
                           IF done.result.kind = "return"
                           THEN [next EXCEPT !.matched_count = @ + 1,
                                             !.sorted_count = @ + 1]
                           ELSE [next EXCEPT !.matched_count = @ + 1,
                                             !.not_sorted_count = @ + 1]
                    /\ fs' = (CsvFile :> "csv") @@ done.fs
    /\ UNCHANGED <<config_file, config, templates, base_output_dir, call,
                   threads>>

\* lines 159-168: the loop is over, the summary is logged
Summary ==
    /\ batch.pc = "loop"
    /\ batch.i > Len(batch.pdf_files)
    /\ batch' = [batch EXCEPT !.pc = "done"]
    /\ UNCHANGED <<config_file, config, templates, base_output_dir, fs, call,
                   threads>>

NextBatch == ProcessFile \/ Summary

SpecBatch == InitBatch /\ [][NextBatch]_vars

\* a step of main as it shows on its locals: the loop moves past the file at
\* position i and raises counters, an exception leaves main, or the summary
\* ends it.  Every step of NextBatch is such a step, and one is possible
\* exactly while main is in the loop.
LoopStep ==
    /\ batch.pc = "loop"
    /\ \/ /\ batch.i <= Len(batch.pdf_files)
          /\ \E m, nf, so, ns \in 0..1 :
                 batch' = [batch EXCEPT
                              !.i = @ + 1,
                              !.processed =
                                  Append(@, batch.pdf_files[batch.i]),
                              !.matched_count = @ + m,
                              !.not_found_count = @ + nf,
                              !.sorted_count = @ + so,
                              !.not_sorted_count = @ + ns]
       \/ /\ batch.i <= Len(batch.pdf_files)
          /\ batch' = [batch EXCEPT !.pc = "raised", !.matched_count = @ + 1]
       \/ /\ batch.i > Len(batch.pdf_files)
          /\ batch' = [batch EXCEPT !.pc = "done"]

\* main is one sequential program: while it is in the loop, its next
\* statement runs
SpecBatchFair == SpecBatch /\ WF_batch(LoopStep)

\* the counters at the summary account for every file
BatchIsBalanced ==
    /\ batch.processed = batch.pdf_files
    /\ batch.not_found_count + batch.sorted_count + batch.not_sorted_count
           = Len(batch.pdf_files)
    /\ batch.matched_count = batch.sorted_count + batch.not_sorted_count

\* a summary that is reached is balanced
BatchEndsBalanced == batch.pc = "done" => BatchIsBalanced

====
